---- MODULE Spec2Model ----
(***************************************************************************)
(* Wallet account and transaction engine of the zkLogin browser wallet:    *)
(* MultiProviderZkLoginService (ephemeral key + proof scheme) and          *)
(* HybridWalletService (direct deterministic key scheme), together with    *)
(* the browser storage they share and the ledger they talk to.             *)
(*                                                                         *)
(* Conventions.  A JavaScript null is the empty sequence Null; a present   *)
(* value v is the one-element sequence <<v>>.  JavaScript undefined in a   *)
(* string position is the string "undefined", which is what template       *)
(* strings and string concatenation turn it into.  Strings that are hashed *)
(* are mapped to their UTF-16 code units by CharCodes.  Time is in         *)
(* milliseconds from the moment the page is first loaded.  Amounts are in  *)
(* MIST (1 SUI = 10^9 MIST).                                               *)
(***************************************************************************)
EXTENDS Integers, Sequences, FiniteSets, TLC

VARIABLES
    zk,           \* in-memory fields of MultiProviderZkLoginService
    hy,           \* in-memory fields of HybridWalletService
    ls,           \* window.localStorage
    ss,           \* window.sessionStorage
    now,          \* Date.now()
    epoch,        \* ledger epoch (getLatestSuiSystemState().epoch)
    ephCounter,   \* number of Ed25519 key pairs generated so far
    ret,          \* last service call and what it returned
    coins,        \* ledger: SUI coins owned by the wallet, in getCoins order
    received,     \* ledger: amounts credited to the recipient, in order
    minted,       \* ledger: number of coin objects created so far
    send,         \* the running sendTransaction call of the proof service
    execLog,      \* ledger: executeTransactionBlock calls received
    hist,         \* last getTransactionHistory call: queries and result
    obs,          \* observations of login results (history variable)
    hyTotal,      \* ledger: total balance of the direct-scheme account, in MIST
    hsend,        \* the running sendTransaction call of the hybrid service
    reads,        \* the latest read-path calls and what they returned
    parked        \* a second sendTransaction call of the proof service, suspended
                  \* at an await while the call in send runs

vars == <<zk, hy, ls, ss, now, epoch, ephCounter, ret, coins, received, minted,
          send, execLog, hist, obs, hyTotal, hsend, reads, parked>>

----------------------------------------------------------------------------
(* Bounds of the model *)

MaxTicks == 2        \* clock advances
MaxEph == 2          \* ephemeral key pairs generated
MaxEpochSteps == 1   \* single epoch advances before and after a lookahead window
MaxCoins == 3        \* coin objects the wallet owns at a time
MaxExec == 1         \* executeTransactionBlock calls

----------------------------------------------------------------------------
(* Null, undefined and small helpers *)

Null == <<>>
Some(v) == <<v>>
Val(o) == o[1]
Undefined == "undefined"

Providers == {"github", "google"}

\* providerConfigs: clientId and issuer of each provider
ClientId(provider) == IF provider = "github" THEN "gh-client-id" ELSE "gg-client-id"
Issuer(provider) ==
    IF provider = "github" THEN "https://github.com" ELSE "https://accounts.google.com"

SessionTTL == 24 * 60 * 60 * 1000
EpochLookahead == 10
TickStep == SessionTTL

----------------------------------------------------------------------------
(* Strings as UTF-16 code units *)

Digits(s) == [i \in 1..Len(s) |-> s[i] + 48]

CharCodes(s) ==
    CASE s = "github"    -> <<103, 105, 116, 104, 117, 98>>
      [] s = "google"    -> <<103, 111, 111, 103, 108, 101>>
      [] s = "undefined" -> <<117, 110, 100, 101, 102, 105, 110, 101, 100>>
      [] s = "1001"      -> Digits(<<1, 0, 0, 1>>)
      [] s = "1002"      -> Digits(<<1, 0, 0, 2>>)
      [] s = "a@x.io"    -> <<97, 64, 120, 46, 105, 111>>
      [] s = "b@x.io"    -> <<98, 64, 120, 46, 105, 111>>
      [] s = "7"         -> Digits(<<7>>)
      [] s = "42"        -> Digits(<<4, 2>>)
      [] s = "-"         -> <<45>>

\* email.split("@")[0]
LocalPart(email) ==
    CASE email = "a@x.io" -> "a"
      [] email = "b@x.io" -> "b"
      [] OTHER -> Undefined

\* Number.prototype.toString() of a numeric GitHub id
IdToString(id) ==
    CASE id = 1001 -> "1001"
      [] id = 1002 -> "1002"

----------------------------------------------------------------------------
(* The 32-bit rolling hash: hash = (hash << 5) - hash + char; hash & hash  *)
(* The 32-bit word is kept as two 16-bit halves so that no intermediate    *)
(* value leaves the range of the checker's integers.                       *)

Half == 65536

RECURSIVE RollingHash(_, _, _, _)
RollingHash(codes, i, hi, lo) ==
    IF i > Len(codes) THEN [hi |-> hi, lo |-> lo]
    ELSE LET low == 31 * lo + codes[i]
             high == 31 * hi + (low \div Half)
         IN  RollingHash(codes, i + 1, high % Half, low % Half)

\* Math.abs of the signed 32-bit value held in the two halves
Abs32(h) ==
    IF h.hi < Half \div 2 THEN h
    ELSE IF h.lo = 0 THEN [hi |-> Half - h.hi, lo |-> 0]
         ELSE [hi |-> Half - 1 - h.hi, lo |-> Half - h.lo]

Hex4(n) == << n \div 4096, (n \div 256) % 16, (n \div 16) % 16, n % 16 >>

\* toString(16) of a value below 2^32, left-padded with "0" to 8 digits
Hex8(h) == Hex4(h.hi) \o Hex4(h.lo)

Zeros(n) == [i \in 1..n |-> 0]

\* hashString: Math.abs(hash).toString(16).padStart(64, "0")
hashString(codes) == Zeros(56) \o Hex8(Abs32(RollingHash(codes, 1, 0, 0)))

----------------------------------------------------------------------------
(* Identity claims delivered by the OAuth exchange (the decoded userToken) *)

Subjects == {"1001", "1002"}

\* userToken values: ok = FALSE is a token that JSON.parse(atob(..)) rejects
Tokens ==
    { [ok |-> TRUE, sub |-> "1001", id |-> Null, email |-> "a@x.io", login |-> "alice"],
      [ok |-> TRUE, sub |-> "1001", id |-> Null, email |-> "b@x.io", login |-> "alice"],
      [ok |-> TRUE, sub |-> "1002", id |-> Null, email |-> "a@x.io", login |-> "alice"],
      [ok |-> TRUE, sub |-> Undefined, id |-> Some(1001), email |-> "a@x.io", login |-> "alice"],
      [ok |-> TRUE, sub |-> Undefined, id |-> Null, email |-> "a@x.io", login |-> "alice"],
      [ok |-> FALSE, sub |-> Undefined, id |-> Null, email |-> Undefined, login |-> Undefined] }

\* userData.sub || userData.id?.toString()
SubOrIdString(userData) ==
    IF userData.sub # Undefined THEN userData.sub
    ELSE IF userData.id # Null THEN IdToString(Val(userData.id))
    ELSE Undefined

\* MultiProviderZkLoginService.normalizeUserData (supported providers)
normalizeUserData(userData, provider) ==
    IF provider = "github"
    THEN [sub |-> SubOrIdString(userData), email |-> userData.email,
          login |-> userData.login, provider |-> "github"]
    ELSE [sub |-> userData.sub, email |-> userData.email,
          login |-> LocalPart(userData.email), provider |-> "google"]

\* as providerCase, the default branch taking the provider for github
providerCaseDefaultGithub(provider) ==
    IF provider \in Providers THEN Some(provider) ELSE Some("github")

\* the case of normalizeUserData's switch a provider name selects; Null is
\* the default branch, which throws `Unsupported provider: ${provider}`
providerCase(provider) == IF provider \in Providers THEN Some(provider) ELSE Null

\* HybridWalletService.normalizeUserData (supported providers); id is kept
\* in the string form the seed template gives it
hyNormalizeUserData(userData, provider) ==
    IF provider = "github"
    THEN [sub |-> SubOrIdString(userData),
          id |-> IF userData.id # Null THEN IdToString(Val(userData.id)) ELSE Undefined,
          email |-> userData.email, login |-> userData.login, provider |-> "github"]
    ELSE [sub |-> userData.sub, id |-> userData.sub,
          email |-> userData.email, login |-> LocalPart(userData.email),
          provider |-> "google"]

----------------------------------------------------------------------------
(* Addresses.  The ledger's address functions (jwtToAddress, toSuiAddress) *)
(* are hashes of their inputs; an address is represented by the inputs it  *)
(* is a hash of.                                                           *)

JwtAddress(iss, aud, sub, salt) ==
    [scheme |-> "zklogin", iss |-> iss, aud |-> aud, sub |-> sub, salt |-> salt,
     hex |-> <<>>]
HexAddress(hex) ==
    [scheme |-> "hex", iss |-> "", aud |-> "", sub |-> "", salt |-> "", hex |-> hex]
\* Ed25519Keypair.getPublicKey().toSuiAddress()
toSuiAddress(privateKey) ==
    [scheme |-> "ed25519", iss |-> "", aud |-> "", sub |-> "", salt |-> "",
     hex |-> privateKey]

----------------------------------------------------------------------------
(* Direct scheme: key derivation of HybridWalletService *)

\* `${provider}-${userData.sub || userData.id}-${userData.email}`
IdentityString(provider, subject, email) ==
    CharCodes(provider) \o CharCodes("-") \o CharCodes(subject)
    \o CharCodes("-") \o CharCodes(email)

\* Math.abs(hash).toString(16).padStart(16, "0").repeat(4).substring(0, 64)
SeedOfIdentity(codes) ==
    LET padded == Zeros(8) \o Hex8(Abs32(RollingHash(codes, 1, 0, 0)))
    IN  SubSeq(padded \o padded \o padded \o padded, 1, 64)

\* the seeds of the identities of the model, computed once
SeedTable ==
    {<<id, SeedOfIdentity(IdentityString(id[1], id[2], id[3]))>> :
        id \in Providers \X (Subjects \cup {Undefined}) \X ({"a@x.io", "b@x.io"} \cup {Undefined})}

\* as createDeterministicSeed, with the login time made part of the identity
createDeterministicSeedWithTime(userData, provider) ==
    LET subject == IF userData.sub # Undefined THEN userData.sub ELSE userData.id
    IN  SeedOfIdentity(IdentityString(provider, subject, userData.email)
                       \o <<48 + (now \div TickStep)>>)

\* the 64 hex digits of the seed, a function of (provider, sub || id, email)
createDeterministicSeed(userData, provider) ==
    LET subject == IF userData.sub # Undefined THEN userData.sub ELSE userData.id
    IN  (CHOOSE p \in SeedTable : p[1] = <<provider, subject, userData.email>>)[2]

\* the 32 bytes of the private key built from the hex seed
createKeypairFromSeed(seed) ==
    LET seedBytes == [i \in 1..(Len(seed) \div 2) |-> 16 * seed[2 * i - 1] + seed[2 * i]]
        privateKey == [i \in 1..32 |-> seedBytes[((i - 1) % (Len(seed) \div 2)) + 1]]
    IN  SubSeq(privateKey, 1, 32)

----------------------------------------------------------------------------
(* Proof scheme: salt and address of MultiProviderZkLoginService *)

saltKey(provider, sub) == <<provider, sub>>
SaltKeys == Providers \X (Subjects \cup {Undefined})

\* as getUserSalt, without the lookup of a stored salt
getUserSaltAlwaysNew(store, userData, provider, rnd) ==
    LET key == saltKey(provider, userData.sub)
    IN  [salt |-> rnd, store |-> [store EXCEPT !.salt[key] = Some(rnd)]]

\* getUserSalt: the stored salt if there is one, else rnd, which is stored
getUserSalt(store, userData, provider, rnd) ==
    LET key == saltKey(provider, userData.sub)
    IN  IF store.salt[key] = Null
        THEN [salt |-> rnd, store |-> [store EXCEPT !.salt[key] = Some(rnd)]]
        ELSE [salt |-> Val(store.salt[key]), store |-> store]

\* createPseudoJWT: the payload fields; JSON.stringify drops an undefined sub
createPseudoJWT(userData, provider) ==
    [sub |-> userData.sub, iss |-> Issuer(provider), aud |-> ClientId(provider),
     email |-> userData.email, login |-> userData.login, iat |-> now,
     nonce |-> ss.zklogin_nonce]

\* generateZkLoginAddress: jwtToAddress rejects a token without sub, and the
\* catch block falls back to the rolling hash of sub + salt + provider
generateZkLoginAddress(userData, salt, provider) ==
    LET jwt == createPseudoJWT(userData, provider)
    IN  IF jwt.sub # Undefined
        THEN JwtAddress(jwt.iss, jwt.aud, jwt.sub, salt)
        ELSE HexAddress(hashString(CharCodes(userData.sub) \o CharCodes(salt)
                                   \o CharCodes(provider)))

\* generateMockZkProof: genAddressSeed(salt, "sub", sub, clientId) and the
\* provider-specific mock proof points
generateMockZkProof(userData, provider, salt) ==
    [provider |-> provider, iss |-> Issuer(provider),
     addressSeed |-> <<salt, userData.sub, ClientId(provider)>>]

----------------------------------------------------------------------------
(* State of the two services and of the browser storage *)

ZkFresh ==
    [user |-> Null, walletAddress |-> Null, ephemeralKeyPair |-> Null,
     zkProof |-> Null, userSalt |-> Null, maxEpoch |-> Null, sessionExpiry |-> Null]

HyFresh ==
    [keypair |-> Null, user |-> Null, walletAddress |-> Null, sessionExpiry |-> Null]

LocalStorageEmpty ==
    [zklogin_session |-> Null, hybrid_wallet_session |-> Null,
     salt |-> [k \in SaltKeys |-> Null]]

\* sessionStorage.clear()
SessionStorageEmpty ==
    [zklogin_ephemeral_keypair |-> Null, zklogin_max_epoch |-> Null,
     zklogin_randomness |-> Null, zklogin_nonce |-> Null,
     zklogin_provider |-> Null, oauth_provider |-> Null,
     github_token |-> Null, google_token |-> Null]

\* what the last call returned; past records, for a restoreSession, whether
\* the persisted session it found had its expiry in the past
Ret(op, ok, error) == [op |-> op, ok |-> ok, error |-> error, past |-> FALSE]
RetRestore(op, ok, error, session) ==
    [op |-> op, ok |-> ok, error |-> error, past |-> Val(session.sessionExpiry) < now]

\* a sendTransaction call: where it stands (pc), its argument, what it has
\* read and built, and what it returns.  seen is the coin list behind the
\* balance it read, netOk whether every ledger query has answered so far,
\* calls the number of execute calls it has issued.
SendIdle ==
    [pc |-> "idle", amount |-> 0, balance |-> 0, seen |-> Null, snapshot |-> <<>>,
     amountInMist |-> 0, tx |-> Null, signature |-> Null, calls |-> 0,
     netOk |-> TRUE, result |-> Null]

HistNone ==
    [sent |-> <<>>, received |-> <<>>, result |-> <<>>, called |-> FALSE, ok |-> FALSE,
     address |-> Null]

ObsNone ==
    [on |-> FALSE, hyFirstId |-> Null, hyFirstRes |-> Null, hyRepeat |-> {}, hyBetween |-> FALSE,
     zkFirstId |-> Null, zkFirstRes |-> Null, zkFirstEph |-> Null, zkRepeat |-> {},
     zkRepeatEphs |-> {}, zkBetween |-> FALSE,
     hyMoved |-> FALSE, hyShared |-> FALSE, zkShared |-> FALSE]

\* a sendTransaction call of the hybrid service: where it stands, its
\* argument, the execute calls it has issued, the status reason the ledger
\* gave, and what it returns
HySendIdle ==
    [pc |-> "idle", amount |-> 0, amountInMist |-> 0, calls |-> 0, reason |-> Null,
     outcome |-> "", result |-> Null, returned |-> 0]

\* the record of the latest read-path call: what it returned, whether the
\* ledger answered, the ledger and the address it read, and how it compares
\* with the call before (again: that was the same operation on the same
\* account in the same ledger state; same: it returned the same value);
\* here no call made yet
ReadsNone ==
    [op |-> "none", value |-> 0, answered |-> FALSE, ledger |-> 0, address |-> Null,
     again |-> FALSE, prevAnswered |-> FALSE, same |-> FALSE]

ledgerVars == <<coins, received, minted, send, execLog, hyTotal, hsend, reads, parked>>

\* new Ed25519Keypair(): the 32 bytes of the n-th key pair drawn; every draw
\* gives other bytes
GenerateKeypair(n) == [i \in 1..32 |-> (89 * n + 57 * i) % 256]

\* Ed25519Keypair.getSecretKey() of @mysten/sui: the Bech32 string
\* "suiprivkey1..." of the scheme flag 0 followed by the 32 key bytes, as
\* character codes.  Bech32Charset[v + 1] is the character of the 5-bit
\* value v.  The six checksum characters that end the string are left out:
\* they lie beyond the bytes restoreSession reads.
Bech32Charset ==
    <<113, 112, 122, 114, 121, 57, 120, 56, 103, 102, 50, 116, 118, 100, 119, 48,
      115, 51, 106, 110, 53, 52, 107, 104, 99, 101, 54, 109, 117, 97, 55, 108>>
SuiPrivKeyPrefix == <<115, 117, 105, 112, 114, 105, 118, 107, 101, 121, 49>>
BitAt(bytes, j) ==
    IF j \div 8 < Len(bytes) THEN (bytes[(j \div 8) + 1] \div (2 ^ (7 - (j % 8)))) % 2 ELSE 0
FiveBits(bytes, g) ==
    16 * BitAt(bytes, 5 * g) + 8 * BitAt(bytes, 5 * g + 1) + 4 * BitAt(bytes, 5 * g + 2)
    + 2 * BitAt(bytes, 5 * g + 3) + BitAt(bytes, 5 * g + 4)
getSecretKey(key) ==
    LET bytes == <<0>> \o key
        groups == (8 * Len(bytes) + 4) \div 5
    IN  SuiPrivKeyPrefix \o [g \in 1..groups |-> Bech32Charset[FiveBits(bytes, g - 1) + 1]]

\* JSON.stringify(Array.from(getSecretKey())): the characters of the Bech32
\* string, one array element each
SecretKeyToStorage(key) == getSecretKey(key)
\* new Uint8Array(JSON.parse(data)) and slice(0, 32): every element goes
\* through Number(), which gives a digit character its value and any other
\* character NaN, stored as 0
SecretKeyFromStorage(data) ==
    [i \in 1..32 |-> IF data[i] >= 48 /\ data[i] <= 57 THEN data[i] - 48 ELSE 0]

\* Buffer.from(text).toString("hex"): two hex digits per character code
toHex(codes) ==
    [i \in 1..(2 * Len(codes)) |->
       IF i % 2 = 1 THEN codes[(i + 1) \div 2] \div 16 ELSE codes[i \div 2] % 16]
\* new Uint8Array(Buffer.from(hex, "hex"))
fromHex(hex) ==
    [i \in 1..(Len(hex) \div 2) |-> 16 * hex[2 * i - 1] + hex[2 * i]]

----------------------------------------------------------------------------
(* Observations: the first successful login of each service fixes an       *)
(* identity; later successful logins of the same identity are collected.   *)

ObserveHyLogin(id, res) ==
    IF ~obs.on THEN obs
    ELSE IF obs.hyFirstId = Null
    THEN [obs EXCEPT !.hyFirstId = Some(id), !.hyFirstRes = Some(res)]
    ELSE IF Val(obs.hyFirstId) = id
         THEN [obs EXCEPT !.hyRepeat = @ \cup {res}]
         ELSE LET first == Val(obs.hyFirstId)
                  sameAccount == first[1] = id[1] /\ first[2] = id[2]
                  sameAddress == Val(obs.hyFirstRes).address = res.address
              IN  [obs EXCEPT !.hyBetween = TRUE,
                              !.hyMoved = @ \/ (sameAccount /\ ~sameAddress),
                              !.hyShared = @ \/ (~sameAccount /\ sameAddress)]

ObserveZkLogin(id, res, eph) ==
    IF ~obs.on THEN obs
    ELSE IF obs.zkFirstId = Null
    THEN [obs EXCEPT !.zkFirstId = Some(id), !.zkFirstRes = Some(res),
                     !.zkFirstEph = Some(eph)]
    ELSE IF Val(obs.zkFirstId) = id
         THEN [obs EXCEPT !.zkRepeat = @ \cup {res}, !.zkRepeatEphs = @ \cup {eph}]
         ELSE [obs EXCEPT !.zkBetween = TRUE,
                          !.zkShared = @ \/ (Val(obs.zkFirstRes).address = res.address)]

\* a teardown (logout or expired restore) after the first login
ObserveTeardown ==
    IF ~obs.on THEN obs
    ELSE
    [obs EXCEPT !.hyBetween = @ \/ (obs.hyFirstId # Null),
                !.zkBetween = @ \/ (obs.zkFirstId # Null)]

----------------------------------------------------------------------------
(* MultiProviderZkLoginService: session lifecycle *)

\* logout(): the in-memory fields, the session record and sessionStorage
ZkLogoutMemory == ZkFresh
\* as ZkLogoutLocalStorage, with localStorage.clear() for removeItem
ZkLogoutLocalStorageClearAll(store) == LocalStorageEmpty
ZkLogoutLocalStorage(store) == [store EXCEPT !.zklogin_session = Null]
ZkLogoutSessionStorage(store) == SessionStorageEmpty

\* as ZkSessionExpired, with a day of grace
ZkSessionExpiredLate(session) == now > Val(session.sessionExpiry) + SessionTTL
\* the expiry test of restoreSession: Date.now() > session.sessionExpiry
ZkSessionExpired(session) == now > Val(session.sessionExpiry)

\* saveSecureSession(): the record written under "zklogin_session"
saveSecureSession(z) ==
    [user |-> z.user, walletAddress |-> z.walletAddress,
     sessionExpiry |-> z.sessionExpiry, userSalt |-> z.userSalt,
     zkProof |-> z.zkProof, maxEpoch |-> z.maxEpoch]

\* initiateLogin(provider); netOk is whether getLatestSuiSystemState answers
ZkInitiateLogin(provider, netOk) ==
    /\ ephCounter < MaxEph
    /\ LET n == ephCounter + 1
           key == GenerateKeypair(n)
           maxE == epoch + EpochLookahead
       IN  /\ ephCounter' = n
           /\ IF netOk
              THEN /\ zk' = [zk EXCEPT !.ephemeralKeyPair = Some(key),
                                       !.maxEpoch = Some(maxE)]
                   /\ ss' = [ss EXCEPT
                               !.zklogin_ephemeral_keypair = Some(SecretKeyToStorage(key)),
                               !.zklogin_max_epoch = Some(maxE),
                               !.zklogin_randomness = Some(n),
                               !.zklogin_nonce = Some(<<n, maxE>>),
                               !.zklogin_provider = Some(provider)]
                   /\ ret' = Ret("zk.initiateLogin", TRUE, "")
              ELSE /\ zk' = [zk EXCEPT !.ephemeralKeyPair = Some(key)]
                   /\ ss' = ss
                   /\ ret' = Ret("zk.initiateLogin", FALSE, "network")
    /\ UNCHANGED <<hy, ls, now, epoch, hist, obs>>
    /\ UNCHANGED ledgerVars

\* handleOAuthCallback(userToken); rnd is the value Math.random() would give
ZkCallbackEffect(token, rnd) ==
    /\ IF ss.zklogin_provider = Null
       THEN /\ ret' = Ret("zk.handleOAuthCallback", FALSE,
                          "No provider information found in session")
            /\ UNCHANGED <<zk, ls, obs>>
       ELSE IF ss.zklogin_ephemeral_keypair = Null
       THEN /\ ret' = Ret("zk.handleOAuthCallback", FALSE, "Missing ephemeral keypair")
            /\ UNCHANGED <<zk, ls, obs>>
       ELSE
         LET stored == Val(ss.zklogin_provider)
             provider == Val(providerCase(stored))
             key == SecretKeyFromStorage(Val(ss.zklogin_ephemeral_keypair))
             zk1 == [zk EXCEPT !.ephemeralKeyPair = Some(key)]
         IN  IF ~token.ok
             THEN /\ zk' = zk1
                  /\ ret' = Ret("zk.handleOAuthCallback", FALSE, "invalid token")
                  /\ UNCHANGED <<ls, obs>>
             ELSE IF providerCase(stored) = Null
             THEN /\ zk' = zk1
                  /\ ret' = Ret("zk.handleOAuthCallback", FALSE, "Unsupported provider")
                  /\ UNCHANGED <<ls, obs>>
             ELSE
               LET userData == normalizeUserData(token, provider)
                   salted == getUserSalt(ls, userData, provider, rnd)
                   address == generateZkLoginAddress(userData, salted.salt, provider)
                   zk2 == [zk1 EXCEPT !.userSalt = Some(salted.salt),
                                      !.walletAddress = Some(address)]
               IN  IF userData.sub = Undefined
                   THEN \* genAddressSeed throws on a missing claim value
                        /\ zk' = zk2
                        /\ ls' = salted.store
                        /\ ret' = Ret("zk.handleOAuthCallback", FALSE, "genAddressSeed")
                        /\ UNCHANGED obs
                   ELSE
                     LET zk3 == [zk2 EXCEPT
                                   !.zkProof = Some(generateMockZkProof(userData, provider,
                                                                        salted.salt)),
                                   !.user = Some([email |-> userData.email,
                                                  loginTime |-> now,
                                                  provider |-> provider,
                                                  login |-> userData.login]),
                                   !.sessionExpiry = Some(now + SessionTTL)]
                     IN  /\ zk' = zk3
                         /\ ls' = [salted.store EXCEPT
                                     !.zklogin_session = Some(saveSecureSession(zk3))]
                         /\ ret' = Ret("zk.handleOAuthCallback", TRUE, "")
                         /\ obs' = ObserveZkLogin(<<provider, userData.sub>>,
                                                  [salt |-> salted.salt, address |-> address],
                                                  key)
    /\ UNCHANGED <<hy, now, epoch, ephCounter, hist>>
    /\ UNCHANGED ledgerVars

\* handleOAuthCallback(userToken): sessionStorage is read, never written
ZkHandleOAuthCallback(token, rnd) == ZkCallbackEffect(token, rnd) /\ UNCHANGED ss

\* restoreSession()
ZkRestoreSession ==
    /\ IF ls.zklogin_session = Null
       THEN /\ ret' = Ret("zk.restoreSession", FALSE, "")
            /\ UNCHANGED <<zk, ls, ss, obs>>
       ELSE LET session == Val(ls.zklogin_session)
            IN  IF ZkSessionExpired(session)
                THEN /\ zk' = ZkLogoutMemory
                     /\ ls' = ZkLogoutLocalStorage(ls)
                     /\ ss' = ZkLogoutSessionStorage(ss)
                     /\ ret' = RetRestore("zk.restoreSession", FALSE, "expired", session)
                     /\ obs' = ObserveTeardown
                ELSE /\ zk' = [zk EXCEPT !.user = session.user,
                                         !.walletAddress = session.walletAddress,
                                         !.sessionExpiry = session.sessionExpiry,
                                         !.userSalt = session.userSalt,
                                         !.zkProof = session.zkProof,
                                         !.maxEpoch = session.maxEpoch]
                     /\ ret' = RetRestore("zk.restoreSession", TRUE, "", session)
                     /\ UNCHANGED <<ls, ss, obs>>
    /\ UNCHANGED <<hy, now, epoch, ephCounter, hist>>
    /\ UNCHANGED ledgerVars

\* logout()
ZkLogout ==
    /\ zk' = ZkLogoutMemory
    /\ ls' = ZkLogoutLocalStorage(ls)
    /\ ss' = ZkLogoutSessionStorage(ss)
    /\ ret' = Ret("zk.logout", TRUE, "")
    /\ obs' = ObserveTeardown
    /\ UNCHANGED <<hy, now, epoch, ephCounter, hist>>
    /\ UNCHANGED ledgerVars

\* isLoggedIn()
ZkIsLoggedIn ==
    zk.user # Null /\ now < (IF zk.sessionExpiry = Null THEN 0 ELSE Val(zk.sessionExpiry))

----------------------------------------------------------------------------
(* HybridWalletService: session lifecycle *)

\* logout(): the in-memory fields, the session record and sessionStorage
HyLogoutMemory == HyFresh
HyLogoutLocalStorage(store) == [store EXCEPT !.hybrid_wallet_session = Null]
\* as HyLogoutSessionStorage, without sessionStorage.clear()
HyLogoutSessionStorageKept(store) == store
HyLogoutSessionStorage(store) == SessionStorageEmpty

\* the expiry test of restoreSession: Date.now() > session.sessionExpiry
HySessionExpired(session) == now > Val(session.sessionExpiry)

\* saveSession(): the record written under "hybrid_wallet_session"
saveSession(h) ==
    [privateKey |-> toHex(getSecretKey(Val(h.keypair))), user |-> h.user,
     walletAddress |-> h.walletAddress, sessionExpiry |-> h.sessionExpiry]

\* initiateLogin(provider)
HyInitiateLogin(provider) ==
    /\ ss' = [ss EXCEPT !.oauth_provider = Some(provider)]
    /\ ret' = Ret("hy.initiateLogin", TRUE, "")
    /\ UNCHANGED <<zk, hy, ls, now, epoch, ephCounter, hist, obs>>
    /\ UNCHANGED ledgerVars

\* handleOAuthCallback(userToken)
HyCallbackEffect(token) ==
    /\ IF ss.oauth_provider = Null
       THEN /\ ret' = Ret("hy.handleOAuthCallback", FALSE,
                          "No provider information found in session")
            /\ UNCHANGED <<hy, ls, obs>>
       ELSE IF ~token.ok
       THEN /\ ret' = Ret("hy.handleOAuthCallback", FALSE, "invalid token")
            /\ UNCHANGED <<hy, ls, obs>>
       ELSE IF providerCase(Val(ss.oauth_provider)) = Null
       THEN /\ ret' = Ret("hy.handleOAuthCallback", FALSE, "Unsupported provider")
            /\ UNCHANGED <<hy, ls, obs>>
       ELSE
         LET provider == Val(providerCase(Val(ss.oauth_provider)))
             userData == hyNormalizeUserData(token, provider)
             key == createKeypairFromSeed(createDeterministicSeed(userData, provider))
             hy1 == [keypair |-> Some(key),
                     walletAddress |-> Some(toSuiAddress(key)),
                     user |-> Some([email |-> userData.email, loginTime |-> now,
                                    provider |-> provider, login |-> userData.login]),
                     sessionExpiry |-> Some(now + SessionTTL)]
         IN  /\ hy' = hy1
             /\ ls' = [ls EXCEPT !.hybrid_wallet_session = Some(saveSession(hy1))]
             /\ ret' = Ret("hy.handleOAuthCallback", TRUE, "")
             /\ obs' = ObserveHyLogin(
                         <<provider,
                           IF userData.sub # Undefined THEN userData.sub ELSE userData.id,
                           userData.email>>,
                         [key |-> key, address |-> toSuiAddress(key)])
    /\ UNCHANGED <<zk, now, epoch, ephCounter, hist>>
    /\ UNCHANGED ledgerVars

\* handleOAuthCallback(userToken): sessionStorage is read, never written
HyHandleOAuthCallback(token) == HyCallbackEffect(token) /\ UNCHANGED ss

\* restoreSession()
HyRestoreSession ==
    /\ IF ls.hybrid_wallet_session = Null
       THEN /\ ret' = Ret("hy.restoreSession", FALSE, "")
            /\ UNCHANGED <<hy, ls, ss, obs>>
       ELSE LET session == Val(ls.hybrid_wallet_session)
            IN  IF HySessionExpired(session)
                THEN /\ hy' = HyLogoutMemory
                     /\ ls' = HyLogoutLocalStorage(ls)
                     /\ ss' = HyLogoutSessionStorage(ss)
                     /\ ret' = RetRestore("hy.restoreSession", FALSE, "expired", session)
                     /\ obs' = ObserveTeardown
                ELSE LET keyBytes == fromHex(session.privateKey)
                         key == SubSeq(keyBytes, 1, 32)
                     IN  /\ hy' = [keypair |-> Some(key),
                                   walletAddress |-> Some(toSuiAddress(key)),
                                   user |-> session.user,
                                   sessionExpiry |-> session.sessionExpiry]
                         /\ ret' = RetRestore("hy.restoreSession", TRUE, "", session)
                         /\ UNCHANGED <<ls, ss, obs>>
    /\ UNCHANGED <<zk, now, epoch, ephCounter, hist>>
    /\ UNCHANGED ledgerVars

\* logout()
HyLogout ==
    /\ hy' = HyLogoutMemory
    /\ ls' = HyLogoutLocalStorage(ls)
    /\ ss' = HyLogoutSessionStorage(ss)
    /\ ret' = Ret("hy.logout", TRUE, "")
    /\ obs' = ObserveTeardown
    /\ UNCHANGED <<zk, now, epoch, ephCounter, hist>>
    /\ UNCHANGED ledgerVars

\* isLoggedIn()
HyIsLoggedIn ==
    hy.user # Null /\ now < (IF hy.sessionExpiry = Null THEN 0 ELSE Val(hy.sessionExpiry))

----------------------------------------------------------------------------
(* Environment: page reload, the clock, the ledger's epoch *)

\* a page load constructs both services anew; browser storage is kept
Reload ==
    /\ zk' = ZkFresh
    /\ hy' = HyFresh
    /\ ret' = Ret("reload", TRUE, "")
    /\ UNCHANGED <<ls, ss, now, epoch, ephCounter, hist, obs>>
    /\ UNCHANGED ledgerVars

Tick ==
    /\ now < MaxTicks * TickStep
    /\ now' = now + TickStep
    /\ UNCHANGED <<zk, hy, ls, ss, epoch, ephCounter, ret, hist, obs>>
    /\ UNCHANGED ledgerVars

\* the ledger moves on by one epoch, or by a whole lookahead window
AdvanceEpoch(d) ==
    /\ \/ d = 1 /\ epoch % EpochLookahead < MaxEpochSteps
       \/ d = EpochLookahead /\ epoch < EpochLookahead
    /\ epoch' = epoch + d
    /\ UNCHANGED <<zk, hy, ls, ss, now, ephCounter, ret, hist, obs>>
    /\ UNCHANGED ledgerVars

----------------------------------------------------------------------------
(* Session lifecycle of both services over the shared browser storage *)

InitWith(observing) ==
    /\ zk = ZkFresh
    /\ hy = HyFresh
    /\ ls = LocalStorageEmpty
    /\ ss = SessionStorageEmpty
    /\ now = 0
    /\ epoch = 0
    /\ ephCounter = 0
    /\ ret = Ret("new", TRUE, "")
    /\ coins = <<>>
    /\ received = <<>>
    /\ minted = 0
    /\ send = SendIdle
    /\ parked = SendIdle
    /\ execLog = <<>>
    /\ hist = HistNone
    /\ obs = [ObsNone EXCEPT !.on = observing]
    /\ hyTotal = 0
    /\ hsend = HySendIdle
    /\ reads = ReadsNone

\* identity claims used where both services run side by side
CoreTokens == {t \in Tokens : ~t.ok \/ (t.sub = "1001" /\ t.email = "a@x.io")}
CoreProviders == {"github"}

CoreSalts == {"7"}

Init == InitWith(FALSE)

Next ==
    \/ \E provider \in CoreProviders, netOk \in BOOLEAN : ZkInitiateLogin(provider, netOk)
    \/ \E token \in CoreTokens, rnd \in CoreSalts : ZkHandleOAuthCallback(token, rnd)
    \/ ZkRestoreSession
    \/ ZkLogout
    \/ \E provider \in CoreProviders : HyInitiateLogin(provider)
    \/ \E token \in CoreTokens : HyHandleOAuthCallback(token)
    \/ HyRestoreSession
    \/ HyLogout
    \/ Reload
    \/ Tick

Spec == Init /\ [][Next]_vars

----------------------------------------------------------------------------
(* The direct scheme on its own, with every identity claim; the proof      *)
(* service takes part through the sessionStorage it clears.                *)

NextHy ==
    \/ \E provider \in Providers : HyInitiateLogin(provider)
    \/ \E token \in Tokens : HyHandleOAuthCallback(token)
    \/ HyRestoreSession
    \/ HyLogout
    \/ ZkLogout
    \/ Reload
    \/ Tick

SpecHy == InitWith(TRUE) /\ [][NextHy]_vars

(* The proof scheme on its own, with every identity claim; the direct      *)
(* service takes part through the sessionStorage it clears.                *)

\* identity claims of two subjects, and a token that does not decode
ZkTokens == {t \in Tokens : ~t.ok \/ (t.sub # Undefined /\ t.email = "a@x.io")}

NextZk ==
    \/ \E provider \in CoreProviders, netOk \in BOOLEAN : ZkInitiateLogin(provider, netOk)
    \/ \E token \in ZkTokens, rnd \in {"7", "42"} : ZkHandleOAuthCallback(token, rnd)
    \/ ZkRestoreSession
    \/ ZkLogout
    \/ HyLogout
    \/ Reload
    \/ Tick

SpecZk == InitWith(TRUE) /\ [][NextZk]_vars

----------------------------------------------------------------------------
(* Claims about the session lifecycle *)

\* C1: direct-scheme determinism.  Every successful handleOAuthCallback of
\* HybridWalletService for the identity (provider, subject, email) of the
\* first login yields the signing key and the address that first login
\* yielded, whatever happened in between.
C1_HybridDeterminism ==
    obs.hyFirstRes # Null => obs.hyRepeat \subseteq {Val(obs.hyFirstRes)}

\* a second login of the same identity after a teardown or another login
C1_Witness == obs.hyRepeat # {} /\ obs.hyBetween

\* C2: salt stability.  Every successful proof-scheme login of the
\* (provider, subject) of the first login uses the salt and resolves to the
\* address of that first login.
C2_SaltStability ==
    obs.zkFirstRes # Null => obs.zkRepeat \subseteq {Val(obs.zkFirstRes)}

\* a later login of the same subject with another ephemeral key, after a
\* teardown or a login of another subject
C2_Witness ==
    /\ obs.zkRepeat # {}
    /\ obs.zkBetween
    /\ \E e \in obs.zkRepeatEphs : e # Val(obs.zkFirstEph)

\* C7: restoreSession on a persisted session whose expiry lies in the past
\* returns false, leaves the in-memory session empty and removes the
\* persisted record; in both services.
C7_ExpiredRestore ==
    /\ (ret.op = "zk.restoreSession" /\ ret.past)
         => /\ ret.ok = FALSE
            /\ zk = ZkFresh
            /\ ls.zklogin_session = Null
    /\ (ret.op = "hy.restoreSession" /\ ret.past)
         => /\ ret.ok = FALSE
            /\ hy = HyFresh
            /\ ls.hybrid_wallet_session = Null

\* both services have restored an expired session: the last call is the
\* hybrid one, and the proof service's record is gone though a salt shows
\* that it had logged in
C7_Witness ==
    /\ ret.op = "hy.restoreSession" /\ ret.past
    /\ ls.zklogin_session = Null /\ zk = ZkFresh
    /\ \E k \in SaltKeys : ls.salt[k] # Null
    /\ now > SessionTTL

\* C8: after logout, explicit or triggered by an expired restore, the
\* in-memory key and proof fields are null, the persisted session record is
\* removed and sessionStorage is empty; in both services.
C8_TeardownClears ==
    /\ (ret.op = "zk.logout" \/ (ret.op = "zk.restoreSession" /\ ret.error = "expired"))
         => /\ zk.ephemeralKeyPair = Null /\ zk.zkProof = Null
            /\ zk.userSalt = Null /\ zk.maxEpoch = Null
            /\ zk.user = Null /\ zk.walletAddress = Null /\ zk.sessionExpiry = Null
            /\ ls.zklogin_session = Null
            /\ ss = SessionStorageEmpty
    /\ (ret.op = "hy.logout" \/ (ret.op = "hy.restoreSession" /\ ret.error = "expired"))
         => /\ hy.keypair = Null
            /\ hy.user = Null /\ hy.walletAddress = Null /\ hy.sessionExpiry = Null
            /\ ls.hybrid_wallet_session = Null
            /\ ss = SessionStorageEmpty

\* a logout of the proof service that tore down a session whose login is
\* witnessed by the salt it left, while the hybrid service is still logged in
C8_Witness ==
    /\ ret.op = "zk.logout"
    /\ \E k \in SaltKeys : ls.salt[k] # Null
    /\ hy.keypair # Null /\ ls.hybrid_wallet_session # Null

\* C9: the per-subject salt store is write-once: no step removes or changes
\* a stored salt.
C9_SaltWriteOnce ==
    [][\A k \in SaltKeys : ls.salt[k] # Null => ls'.salt[k] = ls.salt[k]]_vars

\* a stored salt that has survived an expired restore and a later login of
\* the same subject
C9_Witness ==
    /\ obs.zkRepeat # {}
    /\ ret.op = "zk.restoreSession" /\ ret.error = "expired"
    /\ \E k \in SaltKeys : ls.salt[k] # Null

----------------------------------------------------------------------------
(* MultiProviderZkLoginService: balance and sendTransaction                *)
(*                                                                         *)
(* The user's amount is a decimal number of SUI with at most nine          *)
(* fractional digits, held here as the number of MIST it denotes, so that  *)
(* parseFloat comparisons are comparisons of these numbers.  A balance     *)
(* string is held as the number of MIST its six fractional digits denote.  *)
(* Gas is paid by the ledger from coins the transaction does not name and  *)
(* is not accounted for.                                                   *)

MistPerSui == 1000000000
BalanceDigits == 6
BalanceUnit == MistPerSui \div (10 ^ BalanceDigits)
MaxDeposits == 1     \* coins that arrive from elsewhere

RECURSIVE SumBalances(_)
SumBalances(cs) == IF cs = <<>> THEN 0 ELSE Head(cs).balance + SumBalances(Tail(cs))

\* (Number(totalBalance) / 1_000_000_000).toFixed(6): the total rounded to
\* the nearest multiple of 10^-6 SUI (no total of the model is a tie)
toFixed6(total) == ((total + BalanceUnit \div 2) \div BalanceUnit) * BalanceUnit

\* coins a getCoins page holds when the call names no limit
PageLimit == 3

\* suiClient.getCoins({owner, coinType}).data: the first page of the coins;
\* the cursor and hasNextPage of the answer are not read
FirstPage(cs) == SubSeq(cs, 1, IF Len(cs) < PageLimit THEN Len(cs) ELSE PageLimit)

\* as getBalance, with totalBalance kept from the call before
getBalanceAccumulating(queryOk) ==
    IF zk.walletAddress = Null \/ ~queryOk THEN 0
    ELSE toFixed6(SumBalances(FirstPage(coins))
                  + (IF reads.op = "zk.getBalance" THEN reads.value ELSE 0))

\* getBalance(): "0" without an address or when the query fails
getBalance(queryOk) ==
    IF zk.walletAddress = Null \/ ~queryOk THEN 0
    ELSE toFixed6(SumBalances(FirstPage(coins)))

\* amounts a user asks to send
Amounts == {25, 30, 31, 40, 1100, 3700, 4000}
DepositValues == {5000}

\* amounts of the model for which parseFloat(amount) * 1_000_000_000 falls
\* just below the integer in binary floating point (0.00000003 * 1e9 is
\* 29.999999999999996)
FloatShort == {30}

\* BigInt(Math.floor(amountNum * 1_000_000_000))
FloorMist(amount) == IF amount \in FloatShort THEN amount - 1 ELSE amount

\* the loop over coins.data from index i: the first coin with
\* coinBalance >= amountInMist, 0 when there is none
RECURSIVE FirstFit(_, _, _)
FirstFit(cs, i, amt) ==
    IF i > Len(cs) THEN 0
    ELSE IF cs[i].balance >= amt THEN i
    ELSE FirstFit(cs, i + 1, amt)

\* the transaction block: split the coin for the exact amount, or transfer
\* the entire coin when it matches
BuildTx(coin, amt, sender) ==
    [coin |-> coin.id, balance |-> coin.balance, amount |-> amt, sender |-> sender,
     selected |-> coin.balance,
     mode |-> IF coin.balance > amt THEN "split" ELSE "whole"]

Failed(error) == Some([success |-> FALSE, error |-> error])

\* as LedgerAccepts, without the check of the coin's version
LedgerAcceptsAnyVersion(tx, signature) ==
    /\ epoch <= signature.maxEpoch
    /\ \E i \in 1..Len(coins) : coins[i].id = tx.coin
    /\ tx.mode = "split" => tx.balance >= tx.amount

\* the ledger accepts a transaction while the signature's epoch window is
\* open, the coin it names is still as the transaction resolved it, and a
\* split is covered by the coin
LedgerAccepts(tx, signature) ==
    /\ epoch <= signature.maxEpoch
    /\ \E i \in 1..Len(coins) : coins[i].id = tx.coin /\ coins[i].balance = tx.balance
    /\ tx.mode = "split" => tx.balance >= tx.amount

CoinIndex(id) == CHOOSE i \in 1..Len(coins) : coins[i].id = id

RemoveAt(seq, i) == SubSeq(seq, 1, i - 1) \o SubSeq(seq, i + 1, Len(seq))

sendFrame ==
    UNCHANGED <<zk, hy, ls, ss, now, epoch, ephCounter, hist, obs, hyTotal, hsend, reads,
                parked>>

\* sendTransaction(recipient, amount): the authentication check
SendStart(amount) ==
    /\ send.pc = "idle"
    /\ Len(execLog) < MaxExec
    /\ IF zk.zkProof = Null \/ zk.ephemeralKeyPair = Null \/ zk.walletAddress = Null
       THEN send' = [SendIdle EXCEPT !.pc = "done", !.amount = amount,
                                     !.result = Failed("Not authenticated with zkLogin")]
       ELSE send' = [SendIdle EXCEPT !.pc = "getBalance", !.amount = amount]
    /\ UNCHANGED <<ret, coins, received, minted, execLog>>
    /\ sendFrame

\* step 1: await this.getBalance(), then the two balance checks
SendGetBalance(queryOk) ==
    /\ send.pc = "getBalance"
    /\ LET balance == getBalance(queryOk)
           s1 == [send EXCEPT !.balance = balance,
                              !.netOk = queryOk,
                              !.seen = IF queryOk /\ zk.walletAddress # Null
                                       THEN Some(coins) ELSE Null]
       IN  send' =
             IF balance = 0
             THEN [s1 EXCEPT !.pc = "done", !.result = Failed("Wallet has no SUI")]
             ELSE IF send.amount > balance
             THEN [s1 EXCEPT !.pc = "done", !.result = Failed("Insufficient balance")]
             ELSE [s1 EXCEPT !.pc = "getCoins"]
    /\ UNCHANGED <<ret, coins, received, minted, execLog>>
    /\ sendFrame

\* steps 2 to 4: await getCoins, select the coin, make the transaction block
SendGetCoins(queryOk) ==
    /\ send.pc = "getCoins"
    /\ IF ~queryOk \/ zk.walletAddress = Null
       THEN send' = [send EXCEPT !.pc = "done", !.netOk = FALSE,
                                 !.result = Failed("getCoins failed")]
       ELSE LET amt == FloorMist(send.amount)
                data == FirstPage(coins)
                i == FirstFit(data, 1, amt)
                s1 == [send EXCEPT !.snapshot = data, !.amountInMist = amt]
            IN  send' =
                  IF Len(data) = 0
                  THEN [s1 EXCEPT !.pc = "done",
                                  !.result = Failed("No SUI coins found in wallet")]
                  ELSE IF i = 0
                  THEN [s1 EXCEPT !.pc = "done",
                                  !.result = Failed("coin merging not implemented")]
                  ELSE [s1 EXCEPT !.pc = "build",
                                  !.tx = Some(BuildTx(data[i], amt, Val(zk.walletAddress)))]
    /\ UNCHANGED <<ret, coins, received, minted, execLog>>
    /\ sendFrame

\* await getReferenceGasPrice() and tx.build(): ledger reads that may fail;
\* build resolves tx.object(coinObjectId) to the coin as the ledger has it
\* now, and throws when the coin is gone
SendBuild(queryOk) ==
    /\ send.pc = "build"
    /\ send' = IF ~queryOk
               THEN [send EXCEPT !.pc = "done", !.netOk = FALSE,
                                 !.result = Failed("build failed")]
               ELSE IF \A i \in 1..Len(coins) : coins[i].id # Val(send.tx).coin
               THEN [send EXCEPT !.pc = "done", !.result = Failed("build failed")]
               ELSE [send EXCEPT
                       !.pc = "sign",
                       !.tx = Some([Val(send.tx) EXCEPT
                                      !.balance = coins[CoinIndex(Val(send.tx).coin)].balance])]
    /\ UNCHANGED <<ret, coins, received, minted, execLog>>
    /\ sendFrame

\* step 5: createZkLoginSignature(txBytes)
SendSign ==
    /\ send.pc = "sign"
    /\ send' =
         IF zk.ephemeralKeyPair = Null \/ zk.zkProof = Null \/ zk.maxEpoch = Null
         THEN [send EXCEPT !.pc = "done", !.result = Failed("Transaction signing failed")]
         ELSE [send EXCEPT !.pc = "execute",
                           !.signature = Some([inputs |-> Val(zk.zkProof),
                                               maxEpoch |-> Val(zk.maxEpoch),
                                               userSignature |-> Val(zk.ephemeralKeyPair)])]
    /\ UNCHANGED <<ret, coins, received, minted, execLog>>
    /\ sendFrame

\* the reason the ledger gives with a failure status, the message of an
\* execute call that throws, and `Transaction failed: ${status.error}`
StatusReason == "InsufficientCoinBalance"
ThrownMessage == "fetch failed"
TransactionFailed(reason) ==
    IF reason = "InsufficientCoinBalance"
    THEN "Transaction failed: InsufficientCoinBalance"
    ELSE "Transaction failed: undefined"

\* as AfterExecute, executing again when the call did not succeed
AfterExecuteRetry(outcome) == IF outcome = "success" THEN "done" ELSE "execute"

\* where sendTransaction goes after the execute call: it returns or throws
\* into its catch, whatever the outcome
AfterExecute(outcome) == "done"

\* await executeTransactionBlock: the ledger answers success, answers a
\* failure status, or the call throws; the inner catch turns both of the
\* latter into the signing-failed error
SendExecute(outcome) ==
    /\ send.pc = "execute"
    /\ LET tx == Val(send.tx)
           signature == Val(send.signature)
           i == CoinIndex(tx.coin)
           credited == IF tx.mode = "split" THEN tx.amount ELSE coins[i].balance
       IN  /\ outcome = "success" => LedgerAccepts(tx, signature)
           /\ execLog' = Append(execLog,
                                [tx |-> tx, requested |-> send.amount,
                                 epoch |-> epoch, maxEpoch |-> signature.maxEpoch,
                                 outcome |-> outcome,
                                 reason |-> IF outcome = "failure"
                                            THEN Some(StatusReason) ELSE Null,
                                 credited |-> IF outcome = "success" THEN credited ELSE 0,
                                 kept |-> IF outcome = "success"
                                          THEN coins[i].balance - credited ELSE 0])
           /\ IF outcome = "success"
              THEN /\ coins' = IF tx.mode = "split"
                               THEN [coins EXCEPT ![i].balance = @ - tx.amount]
                               ELSE RemoveAt(coins, i)
                   /\ received' = Append(received, credited)
                   /\ send' = [send EXCEPT !.pc = AfterExecute(outcome), !.calls = @ + 1,
                                           !.result = Some([success |-> TRUE, error |-> ""])]
              ELSE /\ UNCHANGED <<coins, received>>
                   /\ send' = [send EXCEPT !.pc = AfterExecute(outcome), !.calls = @ + 1,
                                           !.result = Failed("Transaction signing failed")]
    /\ UNCHANGED <<ret, minted>>
    /\ sendFrame

\* the promise resolves; the record of the call is kept in ret
SendReturn ==
    /\ send.pc = "done"
    /\ ret' = Ret("zk.sendTransaction", Val(send.result).success, Val(send.result).error)
    /\ send' = SendIdle
    /\ UNCHANGED <<coins, received, minted, execLog>>
    /\ sendFrame

\* a coin arrives from the faucet or from another account
LedgerDeposit(value) ==
    /\ Len(coins) < MaxCoins
    /\ minted < MaxCoins + MaxDeposits
    /\ coins' = Append(coins, [id |-> minted + 1, balance |-> value])
    /\ minted' = minted + 1
    /\ UNCHANGED <<received, send, execLog, ret>>
    /\ sendFrame

----------------------------------------------------------------------------
(* Sending from an established proof-scheme session.  The session is the   *)
(* one initiateLogin("github") and handleOAuthCallback leave in a page     *)
(* that stayed loaded; the ledger starts with one of the coin lists.       *)

InitSend ==
    /\ now = 0
    /\ epoch = 0
    /\ ephCounter = 1
    /\ ss = [SessionStorageEmpty EXCEPT
               !.zklogin_ephemeral_keypair = Some(SecretKeyToStorage(GenerateKeypair(1))),
               !.zklogin_max_epoch = Some(EpochLookahead),
               !.zklogin_randomness = Some(1),
               !.zklogin_nonce = Some(<<1, EpochLookahead>>),
               !.zklogin_provider = Some("github")]
    /\ LET token == CHOOSE t \in Tokens : t.sub = "1001" /\ t.email = "a@x.io"
           userData == normalizeUserData(token, "github")
           salted == getUserSalt(LocalStorageEmpty, userData, "github", "7")
           session ==
             [user |-> Some([email |-> userData.email, loginTime |-> 0,
                             provider |-> "github", login |-> userData.login]),
              walletAddress |-> Some(generateZkLoginAddress(userData, salted.salt, "github")),
              ephemeralKeyPair |->
                  Some(SecretKeyFromStorage(SecretKeyToStorage(GenerateKeypair(1)))),
              zkProof |-> Some(generateMockZkProof(userData, "github", salted.salt)),
              userSalt |-> Some(salted.salt),
              maxEpoch |-> Some(EpochLookahead),
              sessionExpiry |-> Some(SessionTTL)]
       IN  /\ zk = session
           /\ ls = [salted.store EXCEPT !.zklogin_session = Some(saveSecureSession(session))]
    /\ hy = HyFresh
    /\ ret = Ret("zk.handleOAuthCallback", TRUE, "")
    /\ \E list \in { <<>>, <<10, 10, 10>>, <<30, 50, 100>>, <<3000, 5000, 10000>>,
                      <<600, 3000>>, <<600, 600>>, <<5000>>, <<4000, 5000>> } :
          coins = [i \in 1..Len(list) |-> [id |-> i, balance |-> list[i]]]
    /\ received = <<>>
    /\ minted = MaxCoins
    /\ send = SendIdle
    /\ parked = SendIdle
    /\ execLog = <<>>
    /\ hist = HistNone
    /\ obs = ObsNone
    /\ hyTotal = 0
    /\ hsend = HySendIdle
    /\ reads = ReadsNone

NextSend ==
    \/ \E amount \in Amounts : SendStart(amount)
    \/ \E queryOk \in BOOLEAN : SendGetBalance(queryOk)
    \/ \E queryOk \in BOOLEAN : SendGetCoins(queryOk)
    \/ \E queryOk \in BOOLEAN : SendBuild(queryOk)
    \/ SendSign
    \/ \E outcome \in {"success", "failure", "throw"} : SendExecute(outcome)
    \/ SendReturn
    \/ \E value \in DepositValues : LedgerDeposit(value)
    \/ \E d \in {1, EpochLookahead} : AdvanceEpoch(d)

SpecSend == InitSend /\ [][NextSend]_vars

----------------------------------------------------------------------------
(* Claims about sendTransaction of MultiProviderZkLoginService (SpecSend) *)

SendError == Val(send.result).error

\* a call that has come to its end with every ledger query answered
SendAnswered == send.pc = "done" /\ send.netOk /\ send.seen # Null

\* the errors of the balance check
BalanceErrors == {"Insufficient balance", "Wallet has no SUI"}

\* C3: whenever the requested amount in minimal units exceeds the sum of the
\* balances of the account's coins, the send fails with an error of the
\* balance check, not with the merging-not-implemented error, and no execute
\* call is made.
C3_BalancePrecondition ==
    (SendAnswered /\ send.amount > SumBalances(Val(send.seen)))
        => (SendError \in BalanceErrors /\ send.calls = 0)

\* C4: the transaction uses the first coin, in the order the ledger returned,
\* whose balance is >= the requested amount; a greater coin is split for
\* exactly the requested amount, an equal coin is transferred whole; on
\* success the recipient is credited exactly the requested amount and the
\* remainder stays in the sender's coin.
C4_FirstFitExactPayment ==
    /\ (/\ SendAnswered
        /\ coins = Val(send.seen)
        /\ \E i \in 1..Len(coins) : coins[i].balance >= send.amount) => send.tx # Null
    /\ send.tx # Null =>
         LET tx == Val(send.tx)
             snap == send.snapshot
         IN  \E i \in 1..Len(snap) :
               /\ snap[i].id = tx.coin
               /\ snap[i].balance >= send.amount
               /\ \A j \in 1..(i - 1) : snap[j].balance < send.amount
               /\ snap[i].balance > send.amount
                    => (tx.mode = "split" /\ tx.amount = send.amount)
               /\ snap[i].balance = send.amount => tx.mode = "whole"
    /\ \A n \in DOMAIN execLog :
         execLog[n].outcome = "success"
            => /\ execLog[n].credited = execLog[n].requested
               /\ execLog[n].kept = execLog[n].tx.balance - execLog[n].requested

\* C5: when the requested amount does not exceed the total balance but no
\* single coin has balance >= the requested amount, the send fails with the
\* no-single-coin (merging not implemented) error, and no execute call is made.
C5_NoSilentMerge ==
    (/\ SendAnswered
     /\ send.amount <= SumBalances(Val(send.seen))
     /\ \A i \in 1..Len(Val(send.seen)) : Val(send.seen)[i].balance < send.amount
     /\ coins = Val(send.seen))
        => (SendError = "coin merging not implemented" /\ send.calls = 0)

\* C6: no execute call is made for a send when the ledger's epoch is greater
\* than the session's maxEpoch.
C6_ProofWindow ==
    \A n \in DOMAIN execLog : execLog[n].epoch <= execLog[n].maxEpoch

----------------------------------------------------------------------------
(* HybridWalletService.getTransactionHistory                               *)

MaxQuery == 2        \* records one query returns

\* an account other than the wallet's
OtherAddress == toSuiAddress(<<0>>)

\* the ledger's transactions that touch the account me, newest first:
\* transfers to itself (found by both filters), a failed payment to another
\* account, and a payment received
TxChain(me) ==
    << [digest |-> "jkl", sender |-> me, recipient |-> me, status |-> "success",
        timestampMs |-> Some(2 * SessionTTL),
        objectChanges |-> Some(<<[type |-> "mutated", balance |-> Null]>>)],
       [digest |-> "ghi", sender |-> OtherAddress, recipient |-> me, status |-> "success",
        timestampMs |-> Some(SessionTTL),
        objectChanges |-> Some(<<[type |-> "mutated", balance |-> Null],
                                 [type |-> "TransferObject", balance |-> Some(40)]>>)],
       [digest |-> "def", sender |-> me, recipient |-> OtherAddress, status |-> "failure",
        timestampMs |-> Null, objectChanges |-> Null],
       [digest |-> "abc", sender |-> me, recipient |-> me, status |-> "success",
        timestampMs |-> Some(0),
        objectChanges |-> Some(<<[type |-> "TransferObject", balance |-> Some(25)]>>)] >>

\* the records of chain at the indices in S, in the order of chain
RECURSIVE Pick(_, _, _)
Pick(chain, S, i) ==
    IF i > Len(chain) THEN <<>>
    ELSE (IF i \in S THEN <<chain[i]>> ELSE <<>>) \o Pick(chain, S, i + 1)

\* what queryTransactionBlocks({filter, order: "descending", limit}) can
\* answer: at most MaxQuery of the matching transactions, newest first
QueryResults(chain, matching) ==
    { S \in SUBSET matching : Cardinality(S) <= MaxQuery }
FromAddress(chain, me) == {i \in 1..Len(chain) : chain[i].sender = me}
ToAddress(chain, me) == {i \in 1..Len(chain) : chain[i].recipient = me}

\* as findIndex, searching from the end
findLastIndex(self, digest) ==
    CHOOSE i \in 1..Len(self) :
       /\ self[i].digest = digest
       /\ \A j \in (i + 1)..Len(self) : self[j].digest # digest

\* self.findIndex((t) => t.digest === digest), for a digest self holds
findIndex(self, digest) ==
    CHOOSE i \in 1..Len(self) :
       /\ self[i].digest = digest
       /\ \A j \in 1..(i - 1) : self[j].digest # digest

\* allTxs.filter((tx, index, self) => index === self.findIndex(...)), from index
RECURSIVE uniqueTxs(_, _)
uniqueTxs(allTxs, index) ==
    IF index > Len(allTxs) THEN <<>>
    ELSE (IF index = findIndex(allTxs, allTxs[index].digest)
          THEN <<allTxs[index]>> ELSE <<>>) \o uniqueTxs(allTxs, index + 1)

\* extractAmount(tx), in MIST: the balance of the first TransferObject change
\* that carries one, "0" otherwise
RECURSIVE extractFrom(_, _)
extractFrom(changes, i) ==
    IF i > Len(changes) THEN 0
    ELSE IF changes[i].type = "TransferObject" /\ changes[i].balance # Null
    THEN Val(changes[i].balance)
    ELSE extractFrom(changes, i + 1)
extractAmount(tx) ==
    IF tx.objectChanges = Null THEN 0 ELSE extractFrom(Val(tx.objectChanges), 1)

\* new Date(ms).toLocaleDateString(): the day ms falls on
toLocaleDateString(ms) == ms \div (24 * 60 * 60 * 1000)

\* as HistoryRecord, labelling by the recipient
HistoryRecordByRecipient(tx, walletAddress) ==
    [id |-> tx.digest,
     type |-> IF Some(tx.recipient) = walletAddress THEN "Received" ELSE "Sent",
     amount |-> extractAmount(tx),
     date |-> toLocaleDateString(IF tx.timestampMs = Null THEN 0 ELSE Val(tx.timestampMs)),
     status |-> IF tx.status = "success" THEN "Success" ELSE "Failed"]

\* the record uniqueTxs.map makes of tx
HistoryRecord(tx, walletAddress) ==
    [id |-> tx.digest,
     type |-> IF Some(tx.sender) = walletAddress THEN "Sent" ELSE "Received",
     amount |-> extractAmount(tx),
     date |-> toLocaleDateString(IF tx.timestampMs = Null THEN 0 ELSE Val(tx.timestampMs)),
     status |-> IF tx.status = "success" THEN "Success" ELSE "Failed"]

\* getTransactionHistory(): [] without an address and when a query throws;
\* sentIds and receivedIds are the transactions the two queries answer with
HyGetTransactionHistory(sentIds, receivedIds, queryOk) ==
    /\ IF hy.walletAddress = Null
       THEN /\ sentIds = {} /\ receivedIds = {} /\ queryOk
            /\ hist' = [HistNone EXCEPT !.called = TRUE]
       ELSE LET me == Val(hy.walletAddress)
                chain == TxChain(me)
                sentData == Pick(chain, sentIds, 1)
                receivedData == Pick(chain, receivedIds, 1)
                unique == uniqueTxs(sentData \o receivedData, 1)
            IN  /\ sentIds \in QueryResults(chain, FromAddress(chain, me))
                /\ receivedIds \in QueryResults(chain, ToAddress(chain, me))
                /\ hist' = [sent |-> sentData, received |-> receivedData, called |-> TRUE,
                            address |-> hy.walletAddress,
                            ok |-> queryOk,
                            result |-> IF queryOk
                                       THEN [k \in 1..Len(unique) |->
                                               HistoryRecord(unique[k], hy.walletAddress)]
                                       ELSE <<>>]
    /\ ret' = Ret("hy.getTransactionHistory", TRUE, "")
    /\ UNCHANGED <<zk, hy, ls, ss, now, epoch, ephCounter, obs>>
    /\ UNCHANGED ledgerVars

TxIds == SUBSET (1..Len(TxChain(OtherAddress)))

NextHist ==
    \/ \E provider \in CoreProviders : HyInitiateLogin(provider)
    \/ \E token \in CoreTokens : HyHandleOAuthCallback(token)
    \/ HyLogout
    \/ \E sentIds \in TxIds, receivedIds \in TxIds, queryOk \in BOOLEAN :
          HyGetTransactionHistory(sentIds, receivedIds, queryOk)

SpecHist == InitWith(FALSE) /\ [][NextHist]_vars

----------------------------------------------------------------------------
(* Claim about getTransactionHistory of HybridWalletService (SpecHist) *)

HistDigests(q) == {q[i].digest : i \in 1..Len(q)}
HistAll == hist.sent \o hist.received
HistFirst(id) ==
    CHOOSE i \in 1..Len(HistAll) :
       HistAll[i].digest = id /\ \A j \in 1..(i - 1) : HistAll[j].digest # id

\* C10: the list getTransactionHistory returns has at most one record per
\* transaction id; every id of the sent and received results has exactly one
\* record, made from its first occurrence in sent-then-received order, and the
\* records stand in the order of those first occurrences.
C10_HistoryDedup ==
    (hist.called /\ hist.ok) =>
       LET res == hist.result
       IN  /\ \A a, b \in 1..Len(res) : res[a].id = res[b].id => a = b
           /\ {res[a].id : a \in 1..Len(res)} = HistDigests(HistAll)
           /\ \A a \in 1..Len(res) :
                 res[a] = HistoryRecord(HistAll[HistFirst(res[a].id)], hist.address)
           /\ \A a, b \in 1..Len(res) :
                 a < b => HistFirst(res[a].id) < HistFirst(res[b].id)

\* the two results share an id that is not the last of the merged ids
C10_Witness ==
    /\ hist.called /\ hist.ok
    /\ Len(hist.result) >= 2
    /\ hist.result[1].id \in HistDigests(hist.sent) \cap HistDigests(hist.received)
    /\ hist.result[1].type = "Sent"

----------------------------------------------------------------------------
(* Read paths of both services: getBalance                                 *)

ReadCall(op, value, answered, ledger, address) ==
    LET again == reads.op = op /\ reads.ledger = ledger /\ reads.address = address
    IN  [op |-> op, value |-> value, answered |-> answered, ledger |-> ledger,
         address |-> address, again |-> again,
         prevAnswered |-> again /\ reads.answered,
         same |-> again /\ reads.value = value]

readFrame ==
    UNCHANGED <<zk, hy, ls, ss, now, epoch, ephCounter, coins, received, minted,
                send, execLog, hist, obs, hyTotal, hsend, parked>>

\* MultiProviderZkLoginService.getBalance() called by the page
ZkGetBalance(queryOk) ==
    /\ reads' = ReadCall("zk.getBalance", getBalance(queryOk),
                         queryOk /\ zk.walletAddress # Null, coins, zk.walletAddress)
    /\ ret' = Ret("zk.getBalance", TRUE, "")
    /\ readFrame

\* HybridWalletService.getBalance(): suiClient.getBalance gives the total
hyGetBalance(queryOk) ==
    IF hy.walletAddress = Null \/ ~queryOk THEN 0 ELSE toFixed6(hyTotal)

HyGetBalance(queryOk) ==
    /\ reads' = ReadCall("hy.getBalance", hyGetBalance(queryOk),
                         queryOk /\ hy.walletAddress # Null, hyTotal, hy.walletAddress)
    /\ ret' = Ret("hy.getBalance", TRUE, "")
    /\ readFrame

\* a payment arrives in the direct-scheme account
HyLedgerDeposit(value) ==
    /\ hyTotal < MaxDeposits * value
    /\ hyTotal' = hyTotal + value
    /\ UNCHANGED <<zk, hy, ls, ss, now, epoch, ephCounter, ret, coins, received, minted,
                   send, execLog, hist, obs, hsend, reads, parked>>

\* the record processedTxs holds for tx: effects carries no objectChanges
\* and no input of the chain holds an "amount", so the amount stays "0"
ZkHistoryRecord(tx, walletAddress) ==
    LET isReceived == Some(tx.sender) # walletAddress
    IN  [id |-> tx.digest,
         type |-> IF isReceived THEN "Received" ELSE "Sent",
         amount |-> 0,
         date |-> toLocaleDateString(IF tx.timestampMs = Null THEN 0
                                     ELSE Val(tx.timestampMs)),
         status |-> IF tx.status = "success" THEN "Success" ELSE "Failed",
         sender |-> IF isReceived THEN Some(tx.sender) ELSE Null]

\* the record the catch of getTransactionHistory returns
MockFaucetTx ==
    [id |-> "mock_faucet_tx", type |-> "Received", amount |-> MistPerSui,
     date |-> toLocaleDateString(now), status |-> "Success",
     sender |-> Some("Testnet Faucet")]

\* MultiProviderZkLoginService.getTransactionHistory(); ids are the
\* transactions the FromOrToAddress query answers with
ZkGetTransactionHistory(ids, queryOk) ==
    /\ IF zk.walletAddress = Null
       THEN /\ ids = {} /\ queryOk
            /\ reads' = ReadCall("zk.getTransactionHistory", <<>>, FALSE, <<>>, Null)
       ELSE LET chain == TxChain(Val(zk.walletAddress))
                data == Pick(chain, ids, 1)
            IN  /\ ids \in QueryResults(chain, 1..Len(chain))
                /\ reads' = ReadCall("zk.getTransactionHistory",
                                     IF queryOk
                                     THEN [k \in 1..Len(data) |->
                                             ZkHistoryRecord(data[k], zk.walletAddress)]
                                     ELSE <<MockFaucetTx>>,
                                     queryOk, data, zk.walletAddress)
    /\ ret' = Ret("zk.getTransactionHistory", TRUE, "")
    /\ readFrame

\* validateWallet()
ZkValidateWallet(queryOk) ==
    /\ reads' = ReadCall("zk.validateWallet",
         IF zk.walletAddress = Null
         THEN [isValid |-> FALSE, hasCoins |-> FALSE, balance |-> 0, coinCount |-> 0,
               error |-> "No wallet address"]
         ELSE IF ~queryOk
         THEN [isValid |-> FALSE, hasCoins |-> FALSE, balance |-> 0, coinCount |-> 0,
               error |-> "Address not found on network"]
         ELSE LET data == FirstPage(coins)
              IN  [isValid |-> TRUE, hasCoins |-> Len(data) > 0,
                   balance |-> toFixed6(SumBalances(data)), coinCount |-> Len(data),
                   error |-> ""],
         queryOk /\ zk.walletAddress # Null, coins, zk.walletAddress)
    /\ ret' = Ret("zk.validateWallet", TRUE, "")
    /\ readFrame

----------------------------------------------------------------------------
(* Both services with an established session, as the logins of the same    *)
(* GitHub identity leave them in a page that stayed loaded.                *)

SessionToken == CHOOSE t \in Tokens : t.sub = "1001" /\ t.email = "a@x.io"

\* the proof-scheme session handleOAuthCallback establishes
ZkSessionAfterLogin ==
    LET userData == normalizeUserData(SessionToken, "github")
        salted == getUserSalt(LocalStorageEmpty, userData, "github", "7")
    IN  [user |-> Some([email |-> userData.email, loginTime |-> 0,
                        provider |-> "github", login |-> userData.login]),
         walletAddress |-> Some(generateZkLoginAddress(userData, salted.salt, "github")),
         ephemeralKeyPair |->
                  Some(SecretKeyFromStorage(SecretKeyToStorage(GenerateKeypair(1)))),
         zkProof |-> Some(generateMockZkProof(userData, "github", salted.salt)),
         userSalt |-> Some(salted.salt),
         maxEpoch |-> Some(EpochLookahead),
         sessionExpiry |-> Some(SessionTTL)]

\* the direct-scheme session handleOAuthCallback establishes
HySessionAfterLogin ==
    LET userData == hyNormalizeUserData(SessionToken, "github")
        key == createKeypairFromSeed(createDeterministicSeed(userData, "github"))
    IN  [keypair |-> Some(key),
         walletAddress |-> Some(toSuiAddress(key)),
         user |-> Some([email |-> userData.email, loginTime |-> 0,
                        provider |-> "github", login |-> userData.login]),
         sessionExpiry |-> Some(SessionTTL)]

InitBoth ==
    /\ now = 0
    /\ epoch = 0
    /\ ephCounter = 1
    /\ ss = [SessionStorageEmpty EXCEPT
               !.zklogin_ephemeral_keypair = Some(SecretKeyToStorage(GenerateKeypair(1))),
               !.zklogin_max_epoch = Some(EpochLookahead),
               !.zklogin_randomness = Some(1),
               !.zklogin_nonce = Some(<<1, EpochLookahead>>),
               !.zklogin_provider = Some("github"),
               !.oauth_provider = Some("github")]
    /\ zk = ZkSessionAfterLogin
    /\ hy = HySessionAfterLogin
    /\ ls = [LocalStorageEmpty EXCEPT
               !.salt[saltKey("github", "1001")] = Some("7"),
               !.zklogin_session = Some(saveSecureSession(ZkSessionAfterLogin)),
               !.hybrid_wallet_session = Some(saveSession(HySessionAfterLogin))]
    /\ ret = Ret("hy.handleOAuthCallback", TRUE, "")
    /\ received = <<>>
    /\ minted = MaxCoins
    /\ send = SendIdle
    /\ parked = SendIdle
    /\ execLog = <<>>
    /\ hist = HistNone
    /\ obs = ObsNone
    /\ hsend = HySendIdle
    /\ reads = ReadsNone

\* coin lists of the read paths: one of them longer than a page
ReadTxIds == { {}, {1, 3}, {1, 2} }

InitRead ==
    /\ InitBoth
    /\ \E list \in { <<>>, <<10, 10, 10>>, <<600, 3000>>, <<1000, 1000, 1000, 1000>> } :
          coins = [i \in 1..Len(list) |-> [id |-> i, balance |-> list[i]]]
    /\ hyTotal = 0

NextRead ==
    \/ \E queryOk \in BOOLEAN : ZkGetBalance(queryOk)
    \/ \E queryOk \in BOOLEAN : HyGetBalance(queryOk)
    \/ \E ids \in ReadTxIds, queryOk \in BOOLEAN : ZkGetTransactionHistory(ids, queryOk)
    \/ \E sentIds \in ReadTxIds, receivedIds \in ReadTxIds, queryOk \in BOOLEAN :
          HyGetTransactionHistory(sentIds, receivedIds, queryOk)
    \/ \E queryOk \in BOOLEAN : ZkValidateWallet(queryOk)
    \/ \E value \in DepositValues : LedgerDeposit(value)
    \/ \E value \in DepositValues : HyLedgerDeposit(value)
    \/ ZkLogout
    \/ HyLogout

SpecRead == InitRead /\ [][NextRead]_vars

----------------------------------------------------------------------------
(* Claims about the read paths (SpecRead) *)

IsBalanceCall == reads.op \in {"zk.getBalance", "hy.getBalance"}

BalanceFrame ==
    UNCHANGED <<zk, hy, ls, ss, coins, received, minted, execLog, hyTotal>>

----------------------------------------------------------------------------
(* HybridWalletService.sendTransaction                                     *)

hySendFrame ==
    UNCHANGED <<zk, hy, ls, ss, now, epoch, ephCounter, coins, minted, send, execLog,
                hist, obs, reads, parked>>

\* sendTransaction(recipient, amount) up to the await of
\* signAndExecuteTransaction
HySendStart(amount) ==
    /\ hsend.pc = "idle"
    /\ hsend.returned < MaxExec
    /\ hsend' =
         IF hy.keypair = Null \/ hy.walletAddress = Null
         THEN [hsend EXCEPT !.pc = "done", !.amount = amount,
                            !.result = Failed("Wallet not initialized")]
         ELSE [hsend EXCEPT !.pc = "execute", !.amount = amount,
                            !.amountInMist = FloorMist(amount)]
    /\ UNCHANGED <<ret, received, hyTotal>>
    /\ hySendFrame

\* await signAndExecuteTransaction: the ledger answers success (the split of
\* the gas coin is covered by the account's total), answers a failure
\* status, or the call throws
HySendExecute(outcome) ==
    /\ hsend.pc = "execute"
    /\ outcome = "success" => hsend.amountInMist <= hyTotal
    /\ IF outcome = "success"
       THEN /\ hyTotal' = hyTotal - hsend.amountInMist
            /\ received' = Append(received, hsend.amountInMist)
            /\ hsend' = [hsend EXCEPT !.pc = AfterExecute(outcome), !.calls = @ + 1,
                                      !.outcome = outcome,
                                      !.result = Some([success |-> TRUE, error |-> ""])]
       ELSE /\ UNCHANGED <<hyTotal, received>>
            /\ hsend' = [hsend EXCEPT
                           !.pc = AfterExecute(outcome), !.calls = @ + 1,
                           !.outcome = outcome,
                           !.reason = IF outcome = "failure" THEN Some(StatusReason) ELSE Null,
                           !.result = Failed(IF outcome = "failure"
                                             THEN TransactionFailed(StatusReason)
                                             ELSE ThrownMessage)]
    /\ UNCHANGED ret
    /\ hySendFrame

\* the promise resolves
HySendReturn ==
    /\ hsend.pc = "done"
    /\ ret' = Ret("hy.sendTransaction", Val(hsend.result).success, Val(hsend.result).error)
    /\ hsend' = [HySendIdle EXCEPT !.returned = hsend.returned + 1]
    /\ UNCHANGED <<received, hyTotal>>
    /\ hySendFrame

----------------------------------------------------------------------------
(* Payments of both services from established sessions *)

PayAmounts == {0, 4000}

InitPay ==
    /\ InitBoth
    /\ \E list \in { <<5000>>, <<4000, 5000>> } :
          coins = [i \in 1..Len(list) |-> [id |-> i, balance |-> list[i]]]
    /\ hyTotal \in {0, 5000}

\* logout() while a sendTransaction is suspended.  createZkLoginSignature
\* resumes and the execute call is issued in one run of the microtask queue:
\* no click handler runs between the two
ZkLogoutDuringSend == ZkLogout /\ send.pc # "execute"

NextPay ==
    \/ \E amount \in PayAmounts : SendStart(amount)
    \/ \E queryOk \in BOOLEAN : SendGetBalance(queryOk)
    \/ \E queryOk \in BOOLEAN : SendGetCoins(queryOk)
    \/ \E queryOk \in BOOLEAN : SendBuild(queryOk)
    \/ SendSign
    \/ \E outcome \in {"success", "failure", "throw"} : SendExecute(outcome)
    \/ SendReturn
    \/ \E amount \in PayAmounts : HySendStart(amount)
    \/ \E outcome \in {"success", "failure", "throw"} : HySendExecute(outcome)
    \/ HySendReturn
    \/ HyLogout
    \/ ZkLogoutDuringSend
    \/ Tick

SpecPay == InitPay /\ [][NextPay]_vars

\* C12: one invocation of sendTransaction, in either service, issues at most
\* one ledger execute call, whether the call succeeds, returns a non-success
\* status or throws.
C12_NoRetry == send.calls <= 1 /\ hsend.calls <= 1

\* both services have had an execute call answered with a failure status
C12_Witness ==
    /\ send.pc = "done" /\ send.calls = 1 /\ execLog[Len(execLog)].outcome = "failure"
    /\ hsend.pc = "done" /\ hsend.calls = 1 /\ hsend.outcome = "failure"

\* C13: when the execute call returns a non-success status with a reason,
\* sendTransaction returns success = false with an error that carries the
\* reason, in either service.
C13_FailureVerbatim ==
    /\ (send.pc = "done" /\ send.calls = 1 /\ execLog[Len(execLog)].outcome = "failure")
          => /\ ~Val(send.result).success
             /\ Val(send.result).error
                   = TransactionFailed(Val(execLog[Len(execLog)].reason))
    /\ (hsend.pc = "done" /\ hsend.calls = 1 /\ hsend.outcome = "failure")
          => /\ ~Val(hsend.result).success
             /\ Val(hsend.result).error = TransactionFailed(Val(hsend.reason))

\* C14: when the ledger query fails, getBalance returns "0" and
\* getTransactionHistory returns the empty list, in both services; the call
\* does not throw and returns no data that did not come from the ledger.
C14_ReadDefaults ==
    /\ (IsBalanceCall /\ ~reads.answered) => reads.value = 0
    /\ (reads.op = "zk.getTransactionHistory" /\ ~reads.answered) => reads.value = <<>>
    /\ (hist.called /\ ~hist.ok) => hist.result = <<>>
    /\ ret.op \in {"zk.getBalance", "hy.getBalance", "zk.getTransactionHistory",
                   "hy.getTransactionHistory"} => ret.ok

\* C15: the session's maxEpoch is the one fixed by initiateLogin (the epoch
\* at that time plus the lookahead, as stored with the login attempt), in
\* the service and in the persisted session, also when the page was reloaded
\* between initiateLogin and handleOAuthCallback.
C15_MaxEpochFixed ==
    (ret.op = "zk.handleOAuthCallback" /\ ret.ok)
       => /\ ss.zklogin_max_epoch # Null
          /\ zk.maxEpoch = ss.zklogin_max_epoch
          /\ Val(ls.zklogin_session).maxEpoch = ss.zklogin_max_epoch

\* C16: a restoreSession that succeeds after a reload yields the identity,
\* address, expiry and key material the login persisted: the private key
\* under the direct scheme; proof, salt and maxEpoch under the proof scheme.
C16_SessionRoundTrip ==
    /\ (ret.op = "hy.restoreSession" /\ ret.ok)
          => LET session == Val(ls.hybrid_wallet_session)
             IN  /\ hy.user = session.user
                 /\ hy.sessionExpiry = session.sessionExpiry
                 /\ hy.walletAddress = session.walletAddress
                 /\ toHex(getSecretKey(Val(hy.keypair))) = session.privateKey
    /\ (ret.op = "zk.restoreSession" /\ ret.ok)
          => LET session == Val(ls.zklogin_session)
             IN  /\ zk.user = session.user
                 /\ zk.sessionExpiry = session.sessionExpiry
                 /\ zk.walletAddress = session.walletAddress
                 /\ zk.zkProof = session.zkProof
                 /\ zk.userSalt = session.userSalt
                 /\ zk.maxEpoch = session.maxEpoch

\* C17: two logins resolve to the same wallet address if and only if their
\* (provider, subject) pairs are equal: a login of the first login's
\* (provider, subject), whatever its email, yields the first login's
\* address, and a login of another (provider, subject) never does.
C17_AccountIdentity ==
    /\ ~obs.hyMoved
    /\ ~obs.hyShared
    /\ obs.hyFirstRes # Null
          => \A res \in obs.hyRepeat : res.address = Val(obs.hyFirstRes).address
    /\ ~obs.zkShared
    /\ obs.zkFirstRes # Null
          => \A res \in obs.zkRepeat : res.address = Val(obs.zkFirstRes).address

----------------------------------------------------------------------------
(* Login attempts whose recorded provider is not a supported one.  The     *)
(* callbacks read the provider from sessionStorage and cast it unchecked;  *)
(* sessionStorage is written by every script of the origin.                *)

UnsupportedProviders == {"facebook"}

\* a provider name left in sessionStorage under the key of one service
StoreProvider(service, provider) ==
    /\ ss' = IF service = "zk"
             THEN [ss EXCEPT !.zklogin_provider = Some(provider)]
             ELSE [ss EXCEPT !.oauth_provider = Some(provider)]
    /\ ret' = Ret("storage", TRUE, "")
    /\ UNCHANGED <<zk, hy, ls, now, epoch, ephCounter, hist, obs>>
    /\ UNCHANGED ledgerVars

\* tokens that decode
DecodableTokens == {t \in CoreTokens : t.ok}

NextProviders ==
    \/ \E provider \in CoreProviders, netOk \in BOOLEAN : ZkInitiateLogin(provider, netOk)
    \/ \E token \in DecodableTokens, rnd \in CoreSalts : ZkHandleOAuthCallback(token, rnd)
    \/ ZkLogout
    \/ \E provider \in CoreProviders : HyInitiateLogin(provider)
    \/ \E token \in DecodableTokens : HyHandleOAuthCallback(token)
    \/ HyLogout
    \/ \E service \in {"zk", "hy"}, provider \in UnsupportedProviders :
          StoreProvider(service, provider)
    \/ Tick

SpecProviders == InitWith(FALSE) /\ [][NextProviders]_vars

C19_BalanceSumsAllCoins ==
    /\ (reads.op = "zk.getBalance" /\ reads.answered)
          => reads.value = toFixed6(SumBalances(reads.ledger))
    /\ (reads.op = "zk.validateWallet" /\ reads.answered)
          => reads.value.balance = toFixed6(SumBalances(reads.ledger))

\* C20: restoreSession and isLoggedIn agree on expiry.  Whenever
\* restoreSession returns true, isLoggedIn() evaluated at the same instant
\* is true, in both services, the instant now = expiry included.
C20_RestoreAgreesWithIsLoggedIn ==
    [][/\ (ret'.op = "zk.restoreSession" /\ ret'.ok /\ now' = now) => ZkIsLoggedIn'
       /\ (ret'.op = "hy.restoreSession" /\ ret'.ok /\ now' = now) => HyIsLoggedIn']_vars

\* C21: ephemeral keys are not reused across logins.  No successful
\* proof-based handleOAuthCallback after the first one of an identity uses
\* the ephemeral key pair that first one used.
C21_EphemeralKeyFresh ==
    obs.zkFirstEph # Null => Val(obs.zkFirstEph) \notin obs.zkRepeatEphs

\* the ledger's transaction with the digest id, for the account me
LedgerTx(me, id) ==
    LET chain == TxChain(me)
    IN  chain[CHOOSE i \in 1..Len(chain) : chain[i].digest = id]

\* C22: every record getTransactionHistory returns for a transaction of the
\* ledger is labelled Sent exactly when that transaction's sender is the
\* account's address, and Received otherwise, in both services; a transfer
\* to oneself, found by both queries, has one record, labelled Sent.
C22_HistoryClassification ==
    /\ (hist.called /\ hist.ok /\ hist.address # Null) =>
          LET res == hist.result
              me == Val(hist.address)
          IN  /\ \A a \in 1..Len(res) :
                    (res[a].type = "Sent") <=> (LedgerTx(me, res[a].id).sender = me)
              /\ \A a \in 1..Len(res) : res[a].type \in {"Sent", "Received"}
              /\ \A id \in HistDigests(hist.sent) \cap HistDigests(hist.received) :
                    /\ Cardinality({a \in 1..Len(res) : res[a].id = id}) = 1
                    /\ \A a \in 1..Len(res) : res[a].id = id => res[a].type = "Sent"
    /\ (reads.op = "zk.getTransactionHistory" /\ reads.answered) =>
          LET res == reads.value
              me == Val(reads.address)
          IN  /\ Len(res) = Len(reads.ledger)
              /\ \A a \in 1..Len(res) :
                    /\ res[a].id = reads.ledger[a].digest
                    /\ res[a].type \in {"Sent", "Received"}
                    /\ (res[a].type = "Sent") <=> (LedgerTx(me, res[a].id).sender = me)

\* the direct service has returned one Sent record for a transfer to itself
\* that both queries found, next to a Received record, and the proof
\* service has returned a Sent and a Received record
C22_Witness ==
    /\ hist.called /\ hist.ok /\ hist.address # Null
    /\ \E a, b \in 1..Len(hist.result) :
          /\ hist.result[a].id \in HistDigests(hist.sent) \cap HistDigests(hist.received)
          /\ hist.result[a].type = "Sent"
          /\ hist.result[b].type = "Received"
    /\ reads.op = "zk.getTransactionHistory" /\ reads.answered
    /\ \E a, b \in 1..Len(reads.value) :
          reads.value[a].type = "Sent" /\ reads.value[b].type = "Received"

\* C23: the session record HybridWalletService persists does not hold the
\* account's private key in plaintext: decoding the record's privateKey
\* field does not give the secret key of the key pair in use.
C23_PrivateKeyNotPlaintext ==
    (ret.op = "hy.handleOAuthCallback" /\ ret.ok)
       => fromHex(Val(ls.hybrid_wallet_session).privateKey) # getSecretKey(Val(hy.keypair))

\* C24: expiry is enforced on the write path.  No ledger execute call is
\* issued for a session at a time at or after that session's expiry, in
\* either service.
C24_ExpiryOnWritePath ==
    [][/\ (send'.calls > send.calls /\ zk.sessionExpiry # Null)
             => now < Val(zk.sessionExpiry)
       /\ (hsend'.calls > hsend.calls /\ hy.sessionExpiry # Null)
             => now < Val(hy.sessionExpiry)]_vars

----------------------------------------------------------------------------
(* Two sendTransaction calls of the proof service in flight at once.  A    *)
(* call runs from one await to the next; at an await the event loop may    *)
(* continue the other call.                                                *)

\* the event loop continues the suspended call
SendSwitch ==
    /\ send # parked
    /\ send' = parked
    /\ parked' = send
    /\ UNCHANGED <<zk, hy, ls, ss, now, epoch, ephCounter, ret, coins, received, minted,
                   execLog, hist, obs, hyTotal, hsend, reads>>

InitInterleave ==
    /\ InitBoth
    /\ \E list \in { <<4000>>, <<5000>>, <<10000>> } :
          coins = [i \in 1..Len(list) |-> [id |-> i, balance |-> list[i]]]
    /\ hyTotal = 0

NextInterleave ==
    \/ \E amount \in {4000} : SendStart(amount)
    \/ \E queryOk \in BOOLEAN : SendGetBalance(queryOk)
    \/ \E queryOk \in BOOLEAN : SendGetCoins(queryOk)
    \/ \E queryOk \in BOOLEAN : SendBuild(queryOk)
    \/ SendSign
    \/ \E outcome \in {"success", "failure", "throw"} : SendExecute(outcome)
    \/ SendReturn
    \/ SendSwitch

SpecInterleave == InitInterleave /\ [][NextInterleave]_vars

C26_PositiveAmounts ==
    /\ \A i \in 1..Len(execLog) :
          execLog[i].tx.amount > 0 /\ execLog[i].tx.amount = execLog[i].requested
    /\ hsend.calls > 0 => (hsend.amountInMist > 0 /\ hsend.amountInMist = hsend.amount)

\* C27: whenever isLoggedIn() of the proof service is true, the ephemeral
\* key pair, the proof and the wallet address are all present, so that
\* sendTransaction passes its authentication check.
C27_LoggedInCanSign ==
    ZkIsLoggedIn
       => (zk.ephemeralKeyPair # Null /\ zk.zkProof # Null /\ zk.walletAddress # Null)

\* C28: a failed login step leaves the session unchanged.  When
\* initiateLogin or handleOAuthCallback of the proof service returns
\* success = false, the in-memory session fields and the persisted session
\* record are what they were before the call.
C28_FailedLoginFrame ==
    [][(/\ ret'.op \in {"zk.initiateLogin", "zk.handleOAuthCallback"}
        /\ ~ret'.ok
        /\ now' = now /\ epoch' = epoch)
          => (zk' = zk /\ ls'.zklogin_session = ls.zklogin_session)]_vars

----------------------------------------------------------------------------
(* The pages around the services.  /auth/process stores the token the      *)
(* OAuth exchange delivered under the key of the provider that issued it;  *)
(* the wallet page picks a stored token and hands it to handleOAuthCallback *)

\* processAuth: provider and token are the parameters of the page's URL
ProcessAuth(provider, token) ==
    /\ IF token.ok
       THEN /\ ss' = IF provider = "github"
                     THEN [ss EXCEPT !.github_token = Some(token)]
                     ELSE [ss EXCEPT !.google_token = Some(token)]
            /\ ret' = Ret("processAuth", TRUE, "")
       ELSE /\ ss' = ss
            /\ ret' = Ret("processAuth", FALSE, "Invalid authentication token")
    /\ UNCHANGED <<zk, hy, ls, now, epoch, ephCounter, hist, obs>>
    /\ UNCHANGED ledgerVars

\* handleOAuthResult of the proof wallet page, auth=success
ZkHandleOAuthResult(rnd) ==
    LET token == IF ss.github_token # Null THEN ss.github_token ELSE ss.google_token
    IN  /\ token # Null
        /\ ZkCallbackEffect(Val(token), rnd)
        /\ ss' = IF ret'.ok
                 THEN [ss EXCEPT !.github_token = Null, !.google_token = Null]
                 ELSE ss

\* handleOAuthResult of the hybrid wallet page, auth=success
HyHandleOAuthResult ==
    LET token == IF ss.github_token # Null THEN ss.github_token ELSE ss.google_token
    IN  /\ token # Null
        /\ HyCallbackEffect(Val(token))
        /\ ss' = IF ret'.ok
                 THEN [ss EXCEPT !.github_token = Null, !.google_token = Null]
                 ELSE ss

NextPage ==
    \/ \E provider \in Providers, netOk \in BOOLEAN : ZkInitiateLogin(provider, netOk)
    \/ \E provider \in Providers : HyInitiateLogin(provider)
    \/ \E provider \in Providers :
         \E token \in {t \in Tokens : ~t.ok \/ (/\ t.email = "a@x.io"
                                                /\ t.sub # "1002"
                                                /\ (t.sub # Undefined \/ t.id # Null))} :
            ProcessAuth(provider, token)
    \/ \E rnd \in CoreSalts : ZkHandleOAuthResult(rnd)
    \/ HyHandleOAuthResult
    \/ ZkLogout
    \/ HyLogout

SpecPage == InitWith(FALSE) /\ [][NextPage]_vars

\* C29: the session's provider is the provider that issued the claim.  A
\* successful handleOAuthCallback made by the wallet page normalizes the
\* token with the provider under whose key the token was stored, and the
\* established session carries that provider.
C29_ProviderOfIssuer ==
    [][(/\ ss.github_token # Null \/ ss.google_token # Null
        /\ ss'.github_token = Null /\ ss'.google_token = Null
        /\ ret'.op \in {"zk.handleOAuthCallback", "hy.handleOAuthCallback"}
        /\ ret'.ok)
          => LET issuer == IF ss.github_token # Null THEN "github" ELSE "google"
             IN  IF ret'.op = "zk.handleOAuthCallback"
                 THEN Val(zk'.user).provider = issuer
                 ELSE Val(hy'.user).provider = issuer]_vars

\* C30: no execution after logout.  Once logout has returned, no ledger
\* execute call is issued with the logged-out session's key material: a
\* step that issues an execute call starts in a state where the service that
\* issues it still holds its key.
C30_NoExecuteAfterLogout ==
    [][/\ hsend'.calls > hsend.calls => hy.keypair # Null
       /\ (send'.calls > send.calls /\ parked' = parked) => zk.ephemeralKeyPair # Null]_vars

====
